---- MODULE Spec2Model ----
(***************************************************************************)
(* A model of src/src/robinhood.ts: the RobinhoodCrypto client.            *)
(*                                                                         *)
(* Every public operation builds a path (and, for placeOrder, a JSON body) *)
(* and delegates to makeRequest, which signs the request (signRequest),    *)
(* awaits the signature, calls fetch, awaits the response, throws on a     *)
(* non-ok status and otherwise returns response.json().                    *)
(*                                                                         *)
(* A call is an async function: it runs synchronously up to its first      *)
(* await, so the model has one step per stretch of code between awaits.    *)
(* JavaScript values are tagged records, strings are TLA+ strings, and     *)
(* objects are sequences of <<key, value>> pairs in insertion order.       *)
(*                                                                         *)
(* Four specifications share the actions: Spec has any number of calls of  *)
(* any operation outstanding at once, SpecOne has one call with its        *)
(* arguments, keys and responses drawn from the larger sets, SpecOrders    *)
(* has any number of placeOrder calls outstanding at once on any client,   *)
(* and SpecClient has calls of four operations outstanding on one client.  *)
(* JSONStringify does not escape: no string of the model needs it.         *)
(***************************************************************************)
EXTENDS Integers, Sequences, FiniteSets, TLC

(***************************************************************************)
(* Bounds of the model.                                                    *)
(***************************************************************************)
\* calls the caller may start (they may all be outstanding at once)
MaxCalls == 2
\* client instances
NumClients == 2
\* times the wall clock advances
MaxTicks == 1

Calls == 1..MaxCalls
Clients == 1..NumClients

(***************************************************************************)
(* JavaScript values.                                                      *)
(***************************************************************************)
Undefined == [t |-> "undefined"]
Null == [t |-> "null"]
Str(s) == [t |-> "string", v |-> s]
Num(n) == [t |-> "number", v |-> n]
Arr(items) == [t |-> "array", items |-> items]
\* props: a sequence of <<key, value>> pairs, in insertion order
Obj(props) == [t |-> "object", props |-> props]

\* the condition of `if (value)`
Truthy(v) ==
  CASE v.t = "undefined" -> FALSE
    [] v.t = "null" -> FALSE
    [] v.t = "string" -> v.v # ""
    [] v.t = "number" -> v.v # 0
    [] OTHER -> TRUE

RECURSIVE Join(_, _)
\* Array.prototype.join on an array of strings
Join(strs, sep) ==
  IF Len(strs) = 0 THEN ""
  ELSE IF Len(strs) = 1 THEN strs[1]
  ELSE strs[1] \o sep \o Join(Tail(strs), sep)

RECURSIVE ToStr(_)
\* the string a template literal `${v}` (or join) makes of a value
ToStr(v) ==
  CASE v.t = "undefined" -> "undefined"
    [] v.t = "null" -> "null"
    [] v.t = "string" -> v.v
    [] v.t = "number" -> ToString(v.v)
    [] v.t = "array" ->
         Join([i \in 1..Len(v.items) |->
                 IF v.items[i].t \in {"undefined", "null"} THEN ""
                 ELSE ToStr(v.items[i])], ",")
    [] OTHER -> "[object Object]"

\* Object.entries(o): the pairs of an object, in insertion order
Entries(o) == o.props

Keys(o) == {o.props[i][1] : i \in 1..Len(o.props)}

HasKey(o, k) == k \in Keys(o)

Get(o, k) ==
  IF HasKey(o, k)
  THEN o.props[CHOOSE i \in 1..Len(o.props) : o.props[i][1] = k][2]
  ELSE Undefined

\* { ...o, [k]: v }: the own properties of o in order, then k set to v (a
\* key o already has keeps its place and takes the new value)
SpreadWith(o, k, v) ==
  IF HasKey(o, k)
  THEN Obj([i \in 1..Len(o.props) |->
              IF o.props[i][1] = k THEN <<k, v>> ELSE o.props[i]])
  ELSE Obj(Append(o.props, <<k, v>>))

RECURSIVE JSONStringify(_)
\* JSON.stringify: properties whose value is undefined are left out, array
\* elements that are undefined become null
JSONStringify(v) ==
  CASE v.t = "null" -> "null"
    [] v.t = "string" -> "\"" \o v.v \o "\""
    [] v.t = "number" -> ToString(v.v)
    [] v.t = "array" ->
         "[" \o Join([i \in 1..Len(v.items) |->
                        IF v.items[i].t = "undefined" THEN "null"
                        ELSE JSONStringify(v.items[i])], ",") \o "]"
    [] v.t = "object" ->
         LET kept == SelectSeq(v.props, LAMBDA p : p[2].t # "undefined")
         IN "{" \o Join([i \in 1..Len(kept) |->
                           "\"" \o kept[i][1] \o "\":" \o JSONStringify(kept[i][2])],
                        ",") \o "}"
    [] OTHER -> "undefined"

(***************************************************************************)
(* Credentials and base64.  A base64 text is a sequence of one-character   *)
(* strings.                                                                *)
(***************************************************************************)
Base64Alphabet ==
  {"A", "B", "C", "D", "E", "F", "G", "H", "I", "J", "K", "L", "M",
   "N", "O", "P", "Q", "R", "S", "T", "U", "V", "W", "X", "Y", "Z",
   "a", "b", "c", "d", "e", "f", "g", "h", "i", "j", "k", "l", "m",
   "n", "o", "p", "q", "r", "s", "t", "u", "v", "w", "x", "y", "z",
   "0", "1", "2", "3", "4", "5", "6", "7", "8", "9", "+", "/"}

\* standard base64: alphabet characters in groups of four, the last group
\* padded with "="
ValidBase64(text) ==
  /\ Len(text) % 4 = 0
  /\ \A i \in 1..Len(text) :
       \/ text[i] \in Base64Alphabet
       \/ /\ text[i] = "="
          /\ i >= Len(text) - 1
          /\ \A j \in i..Len(text) : text[j] = "="

\* Buffer.from(text, "base64"): decoding stops at the first "=", a
\* character outside the alphabet ("-" and "_" count as "+" and "/") is
\* skipped, and every four characters kept give three bytes.  The bytes are
\* kept as the characters that made them.
BufferFromBase64(text) ==
  LET stops == {i \in 1..Len(text) : text[i] = "="}
      upto == IF stops = {} THEN Len(text)
              ELSE (CHOOSE i \in stops : \A j \in stops : i <= j) - 1
      kept == SelectSeq(SubSeq(text, 1, upto),
                        LAMBDA ch : ch \in Base64Alphabet \cup {"-", "_"})
  IN [length |-> (Len(kept) * 3) \div 4, data |-> kept]

\* nacl.sign.secretKeyLength
SecretKeyLength == 64

\* an 88-character text of a 64-byte secret key
WellFormedKey == [i \in 1..88 |-> IF i > 86 THEN "=" ELSE "A"]
\* the same key read from a file, its line feed still on it
KeyWithLineFeed == [i \in 1..89 |-> IF i = 45 THEN "\n" ELSE WellFormedKey[IF i < 45 THEN i ELSE i - 1]]
\* the 32-byte seed alone: valid base64 of the wrong length
SeedOnlyKey == [i \in 1..44 |-> IF i > 43 THEN "=" ELSE "A"]
\* no key at all, as test/robinhood.test.ts constructs the client
EmptyKey == <<>>
\* not base64 at all
GarbageKey == <<"!", "!", "!", "!">>

PrivateKeys == {WellFormedKey, KeyWithLineFeed, SeedOnlyKey, EmptyKey, GarbageKey}

\* what the model constructs client cl with
ConfigOf(cl, key) ==
  [privateKeyBase64 |-> key,
   publicKeyBase64 |-> <<"P", "Q", "=", "=">>,
   apiKey |-> "rh-api-key-" \o ToString(cl)]

baseUrl == "https://trading.robinhood.com"

(***************************************************************************)
(* Errors and promises.                                                    *)
(***************************************************************************)
Error(name, message) == [name |-> name, message |-> message]

Fulfilled(v) == [state |-> "fulfilled", value |-> v]
Rejected(e) == [state |-> "rejected", error |-> e]
Pending == [state |-> "pending"]

(***************************************************************************)
(* signRequest                                                             *)
(***************************************************************************)
\* a signer that puts the timestamp before the API key
SignedMessageTimestampFirst(apiKey, timestamp, path, method, body) ==
  timestamp \o apiKey \o path \o method \o body

\* the message signRequest signs
SignedMessage(apiKey, timestamp, path, method, body) ==
  apiKey \o timestamp \o path \o method \o body

\* Math.floor(Date.now() / 1000).toString()
Timestamp(nowMs) == ToString(nowMs \div 1000)

\* nacl.sign.detached(message bytes, secret key), base64-encoded: the
\* signature is a value fixed by the key and the message
DetachedSignature(message, secretKey) ==
  [base64 |-> [signedWith |-> secretKey.data, over |-> message]]

\* a signer that takes a key of any length
signRequestAnyKeyLength(cfg, nowMs, path, method, body) ==
  LET timestamp == Timestamp(nowMs)
      message == SignedMessage(cfg.apiKey, timestamp, path, method, body)
  IN Fulfilled([timestamp |-> timestamp,
                signatureBase64 |->
                  DetachedSignature(message, BufferFromBase64(cfg.privateKeyBase64)),
                message |-> message])

\* the promise signRequest returns.  The field message is the local
\* constant `message`, kept to state what was signed.
signRequest(cfg, nowMs, path, method, body) ==
  LET timestamp == Timestamp(nowMs)
      privateKeyBytes == BufferFromBase64(cfg.privateKeyBase64)
      message == SignedMessage(cfg.apiKey, timestamp, path, method, body)
  IN IF privateKeyBytes.length # SecretKeyLength
     THEN Rejected(Error("Error", "bad secret key size"))
     ELSE Fulfilled([timestamp |-> timestamp,
                     signatureBase64 |-> DetachedSignature(message, privateKeyBytes),
                     message |-> message])

(***************************************************************************)
(* State.                                                                  *)
(***************************************************************************)
VARIABLES
  config,         \* config[cl]: the RobinhoodConfig client cl was constructed with
  now,            \* Date.now(), in milliseconds
  ticks,          \* times the clock has advanced
  uuidCount,      \* identifiers uuidv4 has generated
  calls,          \* calls[c]: the frame of the c-th call of a public operation
  fetchLog,       \* fetchLog[c]: the requests call c has handed to fetch, in order
  consoleErrors   \* what console.error has been called with, as <<call, error>>

vars == <<config, now, ticks, uuidCount, calls, fetchLog, consoleErrors>>

NoArgs == <<>>

IdleCall ==
  [pc |-> "idle", client |-> 0, op |-> "", args |-> NoArgs,
   path |-> "", method |-> "", body |-> "",
   signed |-> Pending, response |-> Pending, result |-> Pending]

\* the state after the clients are constructed, client cl with a private
\* key among keys[cl]
Constructed(keys) ==
  /\ config \in {cfg \in [Clients -> [privateKeyBase64 : UNION {keys[cl] : cl \in Clients},
                                      publicKeyBase64 : {<<"P", "Q", "=", "=">>},
                                      apiKey : {"rh-api-key-" \o ToString(cl) : cl \in Clients}]] :
                   \A cl \in Clients : /\ cfg[cl].privateKeyBase64 \in keys[cl]
                                       /\ cfg[cl] = ConfigOf(cl, cfg[cl].privateKeyBase64)}
  /\ now = 1700000999
  /\ ticks = 0
  /\ uuidCount = 0
  /\ calls = [c \in Calls |-> IdleCall]
  /\ fetchLog = [c \in Calls |-> <<>>]
  /\ consoleErrors = {}

\* every client has a key that signs or the seed alone, which does not
Init == Constructed([cl \in Clients |-> {WellFormedKey, SeedOnlyKey}])

\* client 1 has any of the keys
InitOne == Constructed([cl \in Clients |-> IF cl = 1 THEN PrivateKeys ELSE {WellFormedKey}])

(***************************************************************************)
(* makeRequest                                                             *)
(***************************************************************************)
\* the call of makeRequest up to `await this.signRequest(...)`: signRequest
\* has no await of its own, so it has run to its end.  op and args record
\* the public operation that made the call.
makeRequest(c, cl, op, args, path, method, body) ==
  /\ calls' = [calls EXCEPT ![c] =
       [pc |-> "awaitSign", client |-> cl, op |-> op, args |-> args,
        path |-> path, method |-> method, body |-> body,
        signed |-> signRequest(config[cl], now, path, method, body),
        response |-> Pending, result |-> Pending]]
  /\ UNCHANGED <<config, now, ticks, fetchLog, consoleErrors>>

\* the headers makeRequest builds
Headers(apiKey, timestamp, signatureBase64) ==
  [h \in {"Content-Type", "x-api-key", "x-timestamp", "x-signature"} |->
     CASE h = "Content-Type" -> Str("application/json")
       [] h = "x-api-key" -> Str(apiKey)
       [] h = "x-timestamp" -> Str(timestamp)
       [] h = "x-signature" -> signatureBase64]

\* request options that always carry the body
RequestOptionsAlwaysBody(method, headers, body) ==
  [method |-> method, headers |-> headers, body |-> Str(body)]

\* requestOptions: body is set only under `if (body)`
RequestOptions(method, headers, body) ==
  [method |-> method, headers |-> headers,
   body |-> IF body # "" THEN Str(body) ELSE Undefined]

\* a fetch whose URL gets one more query parameter after the signing
FetchCallAugmentedQuery(cfg, call) ==
  [url |-> baseUrl \o call.path \o "&timestamp=" \o call.signed.value.timestamp,
   options |-> RequestOptions(call.method,
                              Headers(cfg.apiKey, call.signed.value.timestamp,
                                      call.signed.value.signatureBase64),
                              call.body)]

\* a fetch that takes the timestamp and the signature from the frame of
\* the first call, as a buffer shared by the calls would give them
FetchCallFirstFrame(cfg, call) ==
  [url |-> baseUrl \o call.path,
   options |-> RequestOptions(call.method,
                              Headers(cfg.apiKey, calls[1].signed.value.timestamp,
                                      calls[1].signed.value.signatureBase64),
                              call.body)]

\* what fetch is called with
FetchCall(cfg, call) ==
  [url |-> baseUrl \o call.path,
   options |-> RequestOptions(call.method,
                              Headers(cfg.apiKey, call.signed.value.timestamp,
                                      call.signed.value.signatureBase64),
                              call.body)]

\* makeRequest resumes after `await this.signRequest(...)`: a rejection is
\* thrown on (the await is outside the try), otherwise fetch is called
AfterSign(c) ==
  /\ calls[c].pc = "awaitSign"
  /\ IF calls[c].signed.state = "rejected"
     THEN /\ calls' = [calls EXCEPT ![c].pc = "done",
                                    ![c].result = Rejected(calls[c].signed.error)]
          /\ UNCHANGED fetchLog
     ELSE /\ calls' = [calls EXCEPT ![c].pc = "awaitFetch"]
          /\ fetchLog' = [fetchLog EXCEPT ![c] =
               Append(@, FetchCall(config[calls[c].client], calls[c]))]
  /\ UNCHANGED <<config, now, ticks, uuidCount, consoleErrors>>

\* a test of the status that lets the client errors through
ResponseOkBelow500(response) == response.status >= 200 /\ response.status <= 499

\* response.ok
ResponseOk(response) == response.status >= 200 /\ response.status <= 299

\* the error makeRequest throws for a response that is not ok
HttpError(response) ==
  Error("Error", "HTTP error! status: " \o ToString(response.status))

\* a catch block that logs the error and returns nothing
catchAndReturn(c, response, error) ==
  /\ consoleErrors' = consoleErrors \cup {<<c, error>>}
  /\ calls' = [calls EXCEPT ![c].pc = "done",
                            ![c].response = response,
                            ![c].result = Fulfilled(Undefined)]

\* the catch block: console.error, then the same error thrown again
catch(c, response, error) ==
  /\ consoleErrors' = consoleErrors \cup {<<c, error>>}
  /\ calls' = [calls EXCEPT ![c].pc = "done",
                            ![c].response = response,
                            ![c].result = Rejected(error)]

\* the promise of fetch is fulfilled with a response: a response that is
\* not ok is thrown as an error inside the try, an ok one is parsed
FetchFulfilled(c, response) ==
  /\ calls[c].pc = "awaitFetch"
  /\ IF ~ResponseOk(response)
     THEN catch(c, Fulfilled(response), HttpError(response))
     ELSE /\ calls' = [calls EXCEPT ![c].pc = "awaitJson",
                                    ![c].response = Fulfilled(response)]
          /\ UNCHANGED consoleErrors
  /\ UNCHANGED <<config, now, ticks, uuidCount, fetchLog>>

\* a failure of the transport answered by sending the request again
FetchRejectedRetry(c, error) ==
  /\ calls[c].pc = "awaitFetch"
  /\ consoleErrors' = consoleErrors \cup {<<c, error>>}
  /\ fetchLog' = [fetchLog EXCEPT ![c] =
       Append(@, FetchCall(config[calls[c].client], calls[c]))]
  /\ UNCHANGED <<config, now, ticks, uuidCount, calls>>

\* the promise of fetch is rejected: the HTTP call never completed
FetchRejected(c, error) ==
  /\ calls[c].pc = "awaitFetch"
  /\ catch(c, Rejected(error), error)
  /\ UNCHANGED <<config, now, ticks, uuidCount, fetchLog>>

\* the documents the remote API answers with
ResultsDocument == Obj(<< <<"results", Arr(<<>>)>> >>)
ErrorDocument ==
  Obj(<< <<"type", Str("validation_error")>>,
         <<"errors", Arr(<< Obj(<< <<"detail", Str("Invalid symbol")>>,
                                   <<"attr", Str("symbol")>> >>) >>)>> >>)
JsonDocuments == {ResultsDocument, ErrorDocument}

\* JSON.parse of a response body: the document the text serializes, or a
\* SyntaxError
JSONParse(text) ==
  IF \E d \in JsonDocuments : JSONStringify(d) = text
  THEN Fulfilled(CHOOSE d \in JsonDocuments : JSONStringify(d) = text)
  ELSE Rejected(Error("SyntaxError", "Unexpected end of JSON input"))

\* `return response.json()`: the promise of the call settles as the promise
\* of response.json() does; it is not awaited inside the try, so its
\* rejection does not pass the catch block
ResponseJson(c) ==
  /\ calls[c].pc = "awaitJson"
  /\ calls' = [calls EXCEPT ![c].pc = "done",
                            ![c].result = JSONParse(calls[c].response.value.body)]
  /\ UNCHANGED <<config, now, ticks, uuidCount, fetchLog, consoleErrors>>

\* the responses and failures the model's network produces
Responses ==
  {[status |-> 200, body |-> JSONStringify(ResultsDocument)],
   [status |-> 204, body |-> ""],
   [status |-> 400, body |-> JSONStringify(ErrorDocument)],
   [status |-> 503, body |-> "<html>Service Unavailable</html>"]}

TransportErrors == {Error("TypeError", "fetch failed")}

(***************************************************************************)
(* The public operations.  Each is the synchronous start of the call: the  *)
(* path (and body) is built and makeRequest runs up to its first await.    *)
(***************************************************************************)
\* the caller starts its calls in the order of their numbers
Start(c) ==
  /\ calls[c].pc = "idle"
  /\ \A d \in Calls : d < c => calls[d].pc # "idle"

\* symbols.map((s) => `symbol=${s}`).join("&"), and the like
Params(name, arr) ==
  [i \in 1..Len(arr.items) |-> name \o "=" \o ToStr(arr.items[i])]

\* `if (limit) ...; if (cursor) ...`
LimitCursor(limit, cursor) ==
  (IF Truthy(limit) THEN <<"limit=" \o ToStr(limit)>> ELSE <<>>)
  \o (IF Truthy(cursor) THEN <<"cursor=" \o ToStr(cursor)>> ELSE <<>>)

\* a parameter whose argument is undefined takes its default value
Default(arg, value) == IF arg = Undefined THEN value ELSE arg

\* a builder that joins the symbols of one parameter with commas
getBestBidAskPathOneParameter(symbols) ==
  "/api/v1/crypto/marketdata/best_bid_ask/?symbol="
    \o ToStr(Default(symbols, Arr(<<Str("BTC-USD")>>)))

getBestBidAskPath(symbols) ==
  LET queryString == Join(Params("symbol", Default(symbols, Arr(<<Str("BTC-USD")>>))), "&")
  IN "/api/v1/crypto/marketdata/best_bid_ask/?" \o queryString

getBestBidAsk(c, cl, symbols) ==
  /\ Start(c)
  /\ makeRequest(c, cl, "getBestBidAsk", <<symbols>>, getBestBidAskPath(symbols), "GET", "")
  /\ UNCHANGED uuidCount

getEstimatedPricePath(symbol, side, quantities) ==
  LET queryString == "symbol=" \o ToStr(symbol) \o "&side=" \o ToStr(side)
                       \o "&quantity=" \o ToStr(quantities)
  IN "/api/v1/crypto/marketdata/estimated_price/?" \o queryString

getEstimatedPrice(c, cl, symbol, side, quantities) ==
  /\ Start(c)
  /\ makeRequest(c, cl, "getEstimatedPrice", <<symbol, side, quantities>>,
                 getEstimatedPricePath(symbol, side, quantities), "GET", "")
  /\ UNCHANGED uuidCount

getTradingPairsPath(symbols, limit, cursor) ==
  LET first == Join(Params("symbol", Default(symbols, Arr(<<Str("BTC-USD")>>))), "&")
      withLimit == IF Truthy(limit) THEN first \o "&limit=" \o ToStr(limit) ELSE first
      queryString == IF Truthy(cursor) THEN withLimit \o "&cursor=" \o ToStr(cursor)
                     ELSE withLimit
  IN "/api/v1/crypto/trading/trading_pairs/?" \o queryString

getTradingPairs(c, cl, symbols, limit, cursor) ==
  /\ Start(c)
  /\ makeRequest(c, cl, "getTradingPairs", <<symbols, limit, cursor>>,
                 getTradingPairsPath(symbols, limit, cursor), "GET", "")
  /\ UNCHANGED uuidCount

\* uuidv4(): the n-th identifier generated; no two are equal
uuidv4(n) == "uuid-" \o ToString(n)

\* a payload whose identifier was generated once, when the module was loaded
placeOrderPayloadOneId(order, id) == SpreadWith(order, "client_order_id", Str(uuidv4(1)))

\* a payload that takes the order's symbol and side only
placeOrderPayloadSymbolSide(order, id) ==
  Obj(<< <<"symbol", Get(order, "symbol")>>, <<"side", Get(order, "side")>>,
         <<"client_order_id", Str(id)>> >>)

\* the payload placeOrder serializes
placeOrderPayload(order, id) == SpreadWith(order, "client_order_id", Str(id))

placeOrder(c, cl, order) ==
  /\ Start(c)
  /\ uuidCount' = uuidCount + 1
  /\ makeRequest(c, cl, "placeOrder", <<order>>, "/api/v1/crypto/trading/orders/", "POST",
                 JSONStringify(placeOrderPayload(order, uuidv4(uuidCount + 1))))

getOrder(c, cl, orderId) ==
  /\ Start(c)
  /\ makeRequest(c, cl, "getOrder", <<orderId>>,
                 "/api/v1/crypto/trading/orders/" \o ToStr(orderId) \o "/", "GET", "")
  /\ UNCHANGED uuidCount

cancelOrder(c, cl, orderId) ==
  /\ Start(c)
  /\ makeRequest(c, cl, "cancelOrder", <<orderId>>,
                 "/api/v1/crypto/trading/orders/" \o ToStr(orderId) \o "/cancel/", "POST", "")
  /\ UNCHANGED uuidCount

\* a builder that tests the filter's values against null and undefined only
getOrdersParamsNotNull(filters, limit, cursor) ==
  LET present == IF Truthy(filters)
                 THEN SelectSeq(Entries(filters), LAMBDA e : e[2].t \notin {"undefined", "null"})
                 ELSE <<>>
  IN [i \in 1..Len(present) |-> present[i][1] \o "=" \o ToStr(present[i][2])]
     \o LimitCursor(limit, cursor)

\* the queryParams array of getOrders
getOrdersParams(filters, limit, cursor) ==
  LET present == IF Truthy(filters)
                 THEN SelectSeq(Entries(filters), LAMBDA e : Truthy(e[2]))
                 ELSE <<>>
  IN [i \in 1..Len(present) |-> present[i][1] \o "=" \o ToStr(present[i][2])]
     \o LimitCursor(limit, cursor)

\* `queryParams.length > 0 ? `?${queryParams.join("&")}` : ""`
QueryString(queryParams) ==
  IF Len(queryParams) > 0 THEN "?" \o Join(queryParams, "&") ELSE ""

getOrdersPath(filters, limit, cursor) ==
  "/api/v1/crypto/trading/orders/" \o QueryString(getOrdersParams(filters, limit, cursor))

getOrders(c, cl, filters, limit, cursor) ==
  /\ Start(c)
  /\ makeRequest(c, cl, "getOrders", <<filters, limit, cursor>>,
                 getOrdersPath(filters, limit, cursor), "GET", "")
  /\ UNCHANGED uuidCount

getAccount(c, cl) ==
  /\ Start(c)
  /\ makeRequest(c, cl, "getAccount", NoArgs, "/api/v1/crypto/trading/accounts/", "GET", "")
  /\ UNCHANGED uuidCount

getHoldingsPath(assetCodes, limit, cursor) ==
  LET queryParams == (IF Truthy(assetCodes) THEN Params("asset_code", assetCodes) ELSE <<>>)
                       \o LimitCursor(limit, cursor)
  IN "/api/v1/crypto/trading/holdings/" \o QueryString(queryParams)

getHoldings(c, cl, assetCodes, limit, cursor) ==
  /\ Start(c)
  /\ makeRequest(c, cl, "getHoldings", <<assetCodes, limit, cursor>>,
                 getHoldingsPath(assetCodes, limit, cursor), "GET", "")
  /\ UNCHANGED uuidCount

\* the wall clock advances
Tick ==
  /\ ticks < MaxTicks
  /\ ticks' = ticks + 1
  /\ now' = now + 1
  /\ UNCHANGED <<config, uuidCount, calls, fetchLog, consoleErrors>>

(***************************************************************************)
(* The arguments the model's caller passes.                                *)
(***************************************************************************)
BTC == Str("BTC-USD")
ETH == Str("ETH-USD")

MarketOrder ==
  Obj(<< <<"symbol", BTC>>, <<"side", Str("buy")>>, <<"type", Str("market")>>,
         <<"market_order_config", Obj(<< <<"asset_quantity", Num(1)>> >>)>> >>)
\* an optional field set to undefined
LimitOrder ==
  Obj(<< <<"side", Str("sell")>>, <<"type", Str("limit")>>, <<"symbol", ETH>>,
         <<"market_order_config", Undefined>>,
         <<"limit_order_config",
           Obj(<< <<"asset_quantity", Num(2)>>, <<"limit_price", Num(3000)>>,
                  <<"time_in_force", Str("gtc")>> >>)>> >>)

SymbolSideFilter == Obj(<< <<"symbol", BTC>>, <<"side", Str("buy")>> >>)
SideSymbolFilter == Obj(<< <<"side", Str("buy")>>, <<"symbol", BTC>> >>)
\* a field present with the empty string, one undefined, one null
EmptySymbolFilter ==
  Obj(<< <<"symbol", Str("")>>, <<"state", Str("open")>>, <<"id", Undefined>>,
         <<"type", Null>> >>)

\* the arguments of the concurrent calls
FewInputs ==
  [symbols |-> {Arr(<<BTC, ETH>>)},
   quantities |-> {Arr(<<Num(1), Num(2)>>)},
   orders |-> {MarketOrder},
   orderIds |-> {Str("order-1")},
   filters |-> {SymbolSideFilter},
   assetCodes |-> {Undefined},
   limits |-> {Undefined},
   cursors |-> {Undefined},
   responses |-> {r \in Responses : r.status \in {200, 400}}]

\* the arguments of a single call
ManyInputs ==
  [symbols |-> {Undefined, Arr(<<>>), Arr(<<BTC, ETH>>), Arr(<<ETH, BTC>>)},
   quantities |-> {Arr(<<>>), Arr(<<Num(1), Num(2)>>)},
   orders |-> {MarketOrder, LimitOrder},
   orderIds |-> {Str("order-1"), Str("")},
   filters |-> {Undefined, Obj(<<>>), SymbolSideFilter, SideSymbolFilter, EmptySymbolFilter},
   assetCodes |-> {Undefined, Arr(<<>>), Arr(<<Str("BTC"), Str("ETH")>>)},
   limits |-> {Undefined, Num(0), Num(10)},
   cursors |-> {Undefined, Str(""), Str("abc")},
   responses |-> Responses]

\* a public operation is called, as call c, with arguments among `in`
Operation(c, clients, in) ==
  \E cl \in clients :
    \/ \E symbols \in in.symbols : getBestBidAsk(c, cl, symbols)
    \/ \E side \in {Str("bid")}, quantities \in in.quantities :
         getEstimatedPrice(c, cl, BTC, side, quantities)
    \/ \E symbols \in in.symbols, limit \in in.limits, cursor \in in.cursors :
         getTradingPairs(c, cl, symbols, limit, cursor)
    \/ \E order \in in.orders : placeOrder(c, cl, order)
    \/ \E orderId \in in.orderIds : getOrder(c, cl, orderId)
    \/ \E orderId \in in.orderIds : cancelOrder(c, cl, orderId)
    \/ \E filters \in in.filters, limit \in in.limits, cursor \in in.cursors :
         getOrders(c, cl, filters, limit, cursor)
    \/ getAccount(c, cl)
    \/ \E assetCodes \in in.assetCodes, limit \in in.limits, cursor \in in.cursors :
         getHoldings(c, cl, assetCodes, limit, cursor)

\* a call resumes after an await
Resume(c, in) ==
  \/ AfterSign(c)
  \/ \E response \in in.responses : FetchFulfilled(c, response)
  \/ \E error \in TransportErrors : FetchRejected(c, error)
  \/ ResponseJson(c)

\* any number of calls outstanding at once
Next ==
  \/ \E c \in Calls : Operation(c, Clients, FewInputs)
  \/ \E c \in Calls : Resume(c, FewInputs)
  \/ Tick

Spec == Init /\ [][Next]_vars

\* one call, its arguments drawn from the larger sets
NextOne ==
  \/ Operation(1, {1}, ManyInputs)
  \/ Resume(1, ManyInputs)
  \/ Tick

SpecOne == InitOne /\ [][NextOne]_vars

\* any number of placeOrder calls outstanding at once, on any of the clients
NextOrders ==
  \/ \E c \in Calls, cl \in Clients, order \in FewInputs.orders : placeOrder(c, cl, order)
  \/ \E c \in Calls : Resume(c, FewInputs)
  \/ Tick

SpecOrders == Init /\ [][NextOrders]_vars

\* client 1 has a key that signs or the seed alone
InitClient ==
  Constructed([cl \in Clients |-> IF cl = 1 THEN {WellFormedKey, SeedOnlyKey}
                                  ELSE {WellFormedKey}])

\* any number of calls outstanding at once on the one client 1: a GET with
\* a query string, a POST with a body, a POST without one and a GET of a
\* bare path
NextClient ==
  \/ \E c \in Calls, symbols \in FewInputs.symbols : getBestBidAsk(c, 1, symbols)
  \/ \E c \in Calls, order \in FewInputs.orders : placeOrder(c, 1, order)
  \/ \E c \in Calls, orderId \in FewInputs.orderIds : cancelOrder(c, 1, orderId)
  \/ \E c \in Calls : getAccount(c, 1)
  \/ \E c \in Calls : Resume(c, FewInputs)
  \/ Tick

SpecClient == InitClient /\ [][NextClient]_vars

(***************************************************************************)
(* Properties.                                                             *)
(***************************************************************************)
\* call c has passed the await of the signature and called fetch
Dispatched(c) ==
  calls[c].pc \in {"awaitFetch", "awaitJson", "done"} /\ calls[c].signed.state = "fulfilled"

\* the statuses of the success range
SuccessStatus(status) == status \in 200..299

SigningError == Error("Error", "bad secret key size")

\* C1: the message signed for a call is the API key, the timestamp, the
\* path, the method and the body, concatenated in that order with nothing
\* between them; the timestamp and the API key are the strings the request
\* carries in x-timestamp and x-api-key, and x-signature is the signature
\* over that message.
C1_SignedMessageIsConcatenation ==
  \A c \in Calls :
    /\ calls[c].signed.state = "fulfilled" =>
         calls[c].signed.value.message =
           config[calls[c].client].apiKey \o calls[c].signed.value.timestamp
             \o calls[c].path \o calls[c].method \o calls[c].body
    /\ \A i \in 1..Len(fetchLog[c]) :
         LET h == fetchLog[c][i].options.headers
         IN /\ h["x-api-key"] = Str(config[calls[c].client].apiKey)
            /\ calls[c].signed.value.message =
                 h["x-api-key"].v \o h["x-timestamp"].v
                   \o calls[c].path \o calls[c].method \o calls[c].body
            /\ h["x-signature"].base64.over = calls[c].signed.value.message

\* after the clock has advanced, an order was signed and its request sent
C1_Witness ==
  \E c \in Calls :
    /\ Len(fetchLog[c]) = 1
    /\ calls[c].body # ""
    /\ fetchLog[c][1].options.headers["x-timestamp"] = Str("1700001")
    /\ calls[c].signed.value.message =
         "rh-api-key-1" \o "1700001" \o "/api/v1/crypto/trading/orders/" \o "POST"
           \o calls[c].body

\* C2: a call whose response has a status outside the success range ends in
\* an error that carries that status; it returns no value.
C2_NonSuccessStatusIsError ==
  \A c \in Calls :
    (calls[c].response.state = "fulfilled"
       /\ ~SuccessStatus(calls[c].response.value.status)) =>
      /\ calls[c].pc = "done"
      /\ calls[c].result.state = "rejected"
      /\ calls[c].result.error.message =
           "HTTP error! status: " \o ToString(calls[c].response.value.status)

\* a call was answered 503
C2_Witness ==
  \E c \in Calls :
    /\ calls[c].response = Fulfilled([status |-> 503, body |-> "<html>Service Unavailable</html>"])
    /\ calls[c].result.state = "rejected"

\* the private key text is malformed: not valid base64, or not the text of
\* a key of the length the signature scheme expects
Malformed(text) == ~ValidBase64(text) \/ BufferFromBase64(text).length # SecretKeyLength

\* C3 as the specification states it: with a malformed private key every
\* call fails in the signing and no request is issued.
C3_MalformedKeyNeverSigns ==
  \A c \in Calls :
    (calls[c].pc # "idle" /\ Malformed(config[calls[c].client].privateKeyBase64)) =>
      /\ calls[c].signed.state = "rejected"
      /\ fetchLog[c] = <<>>

\* C3: when the private key text does not decode to a secret key of the
\* expected length, the call fails with the signing error and no request is
\* issued; a request is only ever issued by a call whose signing has
\* completed, and a call whose signing failed never issues one.
C3_WrongKeyLengthNeverReachesNetwork ==
  \A c \in Calls :
    calls[c].pc # "idle" =>
      /\ BufferFromBase64(config[calls[c].client].privateKeyBase64).length # SecretKeyLength =>
           /\ calls[c].signed = Rejected(SigningError)
           /\ calls[c].pc \in {"awaitSign", "done"}
           /\ calls[c].pc = "done" => calls[c].result = Rejected(SigningError)
      /\ calls[c].signed.state = "rejected" => fetchLog[c] = <<>>
      /\ fetchLog[c] # <<>> => calls[c].signed.state = "fulfilled"

\* a call on a client whose key is not base64 at all has ended in the
\* signing error
C3_Witness ==
  \E c \in Calls :
    /\ calls[c].pc = "done"
    /\ ~ValidBase64(config[calls[c].client].privateKeyBase64)
    /\ calls[c].result = Rejected(SigningError)
    /\ fetchLog[c] = <<>>

\* C4: the request sent carries a body exactly when the body passed to
\* makeRequest is not empty, and the body carried is the string signed.
C4_BodyAttachedIffNonEmpty ==
  \A c \in Calls :
    \A i \in 1..Len(fetchLog[c]) :
      LET sent == fetchLog[c][i].options.body
          h == fetchLog[c][i].options.headers
      IN /\ sent # Undefined <=> calls[c].body # ""
         /\ sent # Undefined =>
              /\ sent = Str(calls[c].body)
              /\ h["x-signature"].base64.over =
                   h["x-api-key"].v \o h["x-timestamp"].v \o calls[c].path
                     \o calls[c].method \o sent.v

\* a request has been sent with the body of an order
C4_Witness ==
  \E c \in Calls :
    /\ calls[c].op = "placeOrder"
    /\ Len(fetchLog[c]) = 1
    /\ fetchLog[c][1].options.body = Str(calls[c].body)
    /\ calls[c].body # ""

\* C5: when the response has a status outside the success range and its
\* body is an error document, the error raised carries the parsed document
\* (its type and its errors).
C5_ErrorCarriesParsedBody ==
  \A c \in Calls :
    (/\ calls[c].response.state = "fulfilled"
     /\ ~SuccessStatus(calls[c].response.value.status)
     /\ JSONParse(calls[c].response.value.body).state = "fulfilled") =>
      /\ calls[c].result.state = "rejected"
      /\ {"type", "errors"} \subseteq DOMAIN calls[c].result.error
      /\ LET document == JSONParse(calls[c].response.value.body).value
         IN /\ calls[c].result.error.type = Get(document, "type")
            /\ calls[c].result.error.errors = Get(document, "errors")

\* the order with the field client_order_id added after its own fields
WithClientOrderId(order, id) == Obj(Append(order.props, <<"client_order_id", Str(id)>>))

\* the identifiers generated so far
GeneratedIds == {uuidv4(n) : n \in 1..uuidCount}

\* C6: a placeOrder call dispatches one request, a POST to
\* /api/v1/crypto/trading/orders/, whose body is the JSON serialization of
\* the order with the one field client_order_id added: the fields of the
\* order keep their values and nothing else is added.  (The request is
\* dispatched once the signing has succeeded; until then, and when it
\* fails, there is none.)
C6_PlaceOrderPayload ==
  \A c \in Calls :
    calls[c].op = "placeOrder" =>
      /\ calls[c].path = "/api/v1/crypto/trading/orders/"
      /\ calls[c].method = "POST"
      /\ \E id \in GeneratedIds :
           calls[c].body = JSONStringify(WithClientOrderId(calls[c].args[1], id))
      /\ Len(fetchLog[c]) = (IF Dispatched(c) THEN 1 ELSE 0)
      /\ \A i \in 1..Len(fetchLog[c]) :
           /\ fetchLog[c][i].url = "https://trading.robinhood.com/api/v1/crypto/trading/orders/"
           /\ fetchLog[c][i].options.method = "POST"
           /\ fetchLog[c][i].options.body = Str(calls[c].body)

\* the order with an undefined field has been placed and its request sent
C6_Witness ==
  \E c \in Calls :
    /\ calls[c].op = "placeOrder"
    /\ calls[c].args[1] = LimitOrder
    /\ Len(fetchLog[c]) = 1
    /\ calls[c].pc = "done"

\* the identifiers a placeOrder call may have put in its body
IdsIn(call) ==
  {n \in 1..MaxCalls : call.body = JSONStringify(WithClientOrderId(call.args[1], uuidv4(n)))}

\* C7: in every step, a placeOrder call that starts, on whichever client,
\* takes an identifier the generator produces during that step, which no
\* other placeOrder call has; the body of a call, and with it the
\* identifier, never changes afterwards, and it is the body the call sends.
C7_ClientOrderIdsUnique ==
  [][/\ \A c \in Calls :
          (calls[c].pc = "idle" /\ calls'[c].op = "placeOrder") =>
            /\ IdsIn(calls'[c]) # {}
            /\ \A n \in IdsIn(calls'[c]) : n > uuidCount /\ n <= uuidCount'
            /\ \A d \in Calls \ {c} :
                 calls'[d].op = "placeOrder" =>
                   IdsIn(calls'[c]) \cap IdsIn(calls'[d]) = {}
     /\ \A c \in Calls :
          calls[c].op = "placeOrder" =>
            /\ calls'[c].body = calls[c].body
            /\ calls'[c].args = calls[c].args
            /\ \A i \in 1..Len(fetchLog'[c]) :
                 fetchLog'[c][i].options.body = Str(calls[c].body)]_vars

\* two orders have been placed and sent, on two clients
C7_Witness ==
  \E c, d \in Calls :
    /\ c # d
    /\ calls[c].op = "placeOrder" /\ calls[d].op = "placeOrder"
    /\ calls[c].client # calls[d].client
    /\ Len(fetchLog[c]) = 1 /\ Len(fetchLog[d]) = 1

\* a value that was passed: neither undefined nor null
Supplied(v) == v.t \notin {"undefined", "null"}

\* a value that was passed and is neither the empty string nor zero
NonEmpty(v) == Supplied(v) /\ v # Str("") /\ v # Num(0)

\* the path of getOrders when the fields, the limit and the cursor that
\* satisfy Sent make the parameters
OrdersPathWhen(filters, limit, cursor, Sent(_)) ==
  LET fields == IF Supplied(filters) THEN filters.props ELSE <<>>
      sent == SelectSeq(fields, LAMBDA e : Sent(e[2]))
      params == [i \in 1..Len(sent) |-> sent[i][1] \o "=" \o ToStr(sent[i][2])]
                  \o (IF Sent(limit) THEN <<"limit=" \o ToStr(limit)>> ELSE <<>>)
                  \o (IF Sent(cursor) THEN <<"cursor=" \o ToStr(cursor)>> ELSE <<>>)
  IN "/api/v1/crypto/trading/orders/"
       \o (IF params = <<>> THEN "" ELSE "?" \o Join(params, "&"))

\* C8 as the specification states it: one parameter for every field of the
\* filter that is present (neither null nor omitted), in insertion order,
\* then limit and cursor when supplied.
C8_EveryPresentFieldIsSent ==
  \A c \in Calls :
    calls[c].op = "getOrders" =>
      calls[c].path =
        OrdersPathWhen(calls[c].args[1], calls[c].args[2], calls[c].args[3], Supplied)

\* C8: the query string of getOrders has one key=value parameter for every
\* field of the filter whose value is neither undefined, null nor the empty
\* string, in insertion order, then limit when it is not zero and cursor
\* when it is not empty, and no other parameter; the filter
\* {symbol: "BTC-USD", side: "buy"} gives symbol=BTC-USD&side=buy.
C8_EveryNonEmptyFieldIsSent ==
  \A c \in Calls :
    calls[c].op = "getOrders" =>
      /\ calls[c].path =
           OrdersPathWhen(calls[c].args[1], calls[c].args[2], calls[c].args[3], NonEmpty)
      /\ calls[c].args = <<SymbolSideFilter, Undefined, Undefined>> =>
           calls[c].path = "/api/v1/crypto/trading/orders/?symbol=BTC-USD&side=buy"
      /\ calls[c].args = <<SideSymbolFilter, Undefined, Undefined>> =>
           calls[c].path = "/api/v1/crypto/trading/orders/?side=buy&symbol=BTC-USD"
      /\ \A i \in 1..Len(fetchLog[c]) :
           fetchLog[c][i].url = "https://trading.robinhood.com" \o calls[c].path

\* getOrders was called with a filter whose symbol is empty, limit 10 and a
\* cursor, and its request was sent
C8_Witness ==
  \E c \in Calls :
    /\ calls[c].op = "getOrders"
    /\ calls[c].args = <<EmptySymbolFilter, Num(10), Str("abc")>>
    /\ calls[c].path = "/api/v1/crypto/trading/orders/?state=open&limit=10&cursor=abc"
    /\ Len(fetchLog[c]) = 1

RECURSIVE SymbolQuery(_)
\* one symbol=<s> for every element, in order, joined by &
SymbolQuery(items) ==
  IF Len(items) = 0 THEN ""
  ELSE IF Len(items) = 1 THEN "symbol=" \o items[1].v
  ELSE SymbolQuery(SubSeq(items, 1, Len(items) - 1)) \o "&symbol=" \o items[Len(items)].v

\* C9: a getBestBidAsk call dispatches one GET request to
\* /api/v1/crypto/marketdata/best_bid_ask/ whose query string is one
\* symbol=<s> per element of the list, in order, joined by &; the list
\* ["BTC-USD", "ETH-USD"] gives symbol=BTC-USD&symbol=ETH-USD.  (The request
\* is dispatched once the signing has succeeded.)
C9_BestBidAskQuery ==
  \A c \in Calls :
    (calls[c].op = "getBestBidAsk" /\ calls[c].args[1] # Undefined) =>
      /\ calls[c].path =
           "/api/v1/crypto/marketdata/best_bid_ask/?" \o SymbolQuery(calls[c].args[1].items)
      /\ calls[c].args[1] = Arr(<<BTC, ETH>>) =>
           calls[c].path =
             "/api/v1/crypto/marketdata/best_bid_ask/?symbol=BTC-USD&symbol=ETH-USD"
      /\ calls[c].method = "GET"
      /\ Len(fetchLog[c]) = (IF Dispatched(c) THEN 1 ELSE 0)
      /\ \A i \in 1..Len(fetchLog[c]) :
           /\ fetchLog[c][i].url = "https://trading.robinhood.com" \o calls[c].path
           /\ fetchLog[c][i].options.method = "GET"
           /\ fetchLog[c][i].options.body = Undefined

\* the request for two symbols has been sent
C9_Witness ==
  \E c \in Calls :
    /\ calls[c].op = "getBestBidAsk"
    /\ calls[c].args[1] = Arr(<<ETH, BTC>>)
    /\ Len(fetchLog[c]) = 1

\* the errors makeRequest raises for a status outside the success range
StatusErrors == {Error("Error", "HTTP error! status: " \o ToString(r.status)) : r \in Responses}

\* C10: when the HTTP call never completes, the call ends in the error the
\* transport raised, unchanged, which is none of the errors raised for a
\* status; no value is returned.
C10_TransportErrorReachesCaller ==
  \A c \in Calls :
    calls[c].response.state = "rejected" =>
      /\ calls[c].pc = "done"
      /\ calls[c].result = Rejected(calls[c].response.error)
      /\ calls[c].result.error \notin StatusErrors

\* a call has ended in a transport failure
C10_Witness ==
  \E c \in Calls :
    /\ calls[c].response = Rejected(Error("TypeError", "fetch failed"))
    /\ calls[c].pc = "done"
    /\ Len(fetchLog[c]) = 1

\* C11: with any number of calls outstanding on one client, in every step:
\* the credentials stay as they are; a call that starts signs the timestamp
\* the clock shows in that step, with its own path, method and body; what a
\* call has signed never changes afterwards, nor do its path, method and
\* body; and a request that is sent carries the timestamp and the
\* signature of the call that sends it, to its path, with its body.
C11_EachCallSignsItsOwnRequest ==
  [][/\ config' = config
     /\ \A c \in Calls :
          (calls[c].pc = "idle" /\ calls'[c].pc # "idle"
             /\ calls'[c].signed.state = "fulfilled") =>
            /\ calls'[c].signed.value.timestamp = ToString(now \div 1000)
            /\ calls'[c].signed.value.message =
                 config[calls'[c].client].apiKey \o ToString(now \div 1000)
                   \o calls'[c].path \o calls'[c].method \o calls'[c].body
            /\ calls'[c].signed.value.signatureBase64.base64.over =
                 calls'[c].signed.value.message
     /\ \A c \in Calls :
          calls[c].pc # "idle" =>
            /\ calls'[c].signed = calls[c].signed
            /\ calls'[c].client = calls[c].client
            /\ <<calls'[c].path, calls'[c].method, calls'[c].body>> =
                 <<calls[c].path, calls[c].method, calls[c].body>>
     /\ \A c \in Calls :
          fetchLog'[c] # fetchLog[c] =>
            /\ fetchLog'[c] = Append(fetchLog[c], fetchLog'[c][Len(fetchLog'[c])])
            /\ \A d \in Calls \ {c} : fetchLog'[d] = fetchLog[d]
            /\ LET sent == fetchLog'[c][Len(fetchLog'[c])]
                   h == sent.options.headers
               IN /\ h["x-timestamp"] = Str(calls[c].signed.value.timestamp)
                  /\ h["x-signature"] = calls[c].signed.value.signatureBase64
                  /\ h["x-signature"].base64.over =
                       config[calls[c].client].apiKey \o calls[c].signed.value.timestamp
                         \o calls[c].path \o calls[c].method \o calls[c].body
                  /\ sent.url = "https://trading.robinhood.com" \o calls[c].path
                  /\ sent.options.method = calls[c].method
                  /\ sent.options.body \in {Undefined, Str(calls[c].body)}]_vars

\* two calls on one client were outstanding at once, the second started
\* after the clock advanced and sent first; both requests carry their own
\* timestamp
C11_Witness ==
  \E c, d \in Calls :
    /\ c < d
    /\ calls[c].client = calls[d].client
    /\ calls[c].pc = "awaitFetch" /\ calls[d].pc = "done"
    /\ calls[c].response = Pending
    /\ Len(fetchLog[c]) = 1 /\ Len(fetchLog[d]) = 1
    /\ fetchLog[c][1].options.headers["x-timestamp"] = Str("1700000")
    /\ fetchLog[d][1].options.headers["x-timestamp"] = Str("1700001")

\* C12: in every step, a call has sent at most one request; a call that
\* has ended does nothing more; a call whose signing failed can only end,
\* in that error, with no request sent; and a call whose request failed in
\* the transport or was answered with a status outside the success range
\* has ended in that error with its one request sent.
C12_AtMostOneRequestPerCall ==
  [][\A c \in Calls :
       /\ Len(fetchLog'[c]) <= 1
       /\ calls[c].pc = "done" =>
            calls'[c] = calls[c] /\ fetchLog'[c] = fetchLog[c]
       /\ (calls[c].signed.state = "rejected" /\ calls'[c] # calls[c]) =>
            /\ calls'[c].pc = "done"
            /\ calls'[c].result = Rejected(calls[c].signed.error)
            /\ fetchLog'[c] = <<>>
       /\ calls'[c].response.state = "rejected" =>
            /\ calls'[c].pc = "done"
            /\ calls'[c].result = Rejected(calls'[c].response.error)
            /\ Len(fetchLog'[c]) = 1
       /\ (calls'[c].response.state = "fulfilled"
             /\ calls'[c].response.value.status \notin 200..299) =>
            /\ calls'[c].pc = "done"
            /\ calls'[c].result.state = "rejected"
            /\ Len(fetchLog'[c]) = 1]_vars

\* a call answered 400 has ended in the error, logged once, with one
\* request sent
C12_Witness ==
  \E c \in Calls :
    /\ calls[c].pc = "done"
    /\ calls[c].response.state = "fulfilled"
    /\ calls[c].response.value.status = 400
    /\ calls[c].result = Rejected(Error("Error", "HTTP error! status: 400"))
    /\ Len(fetchLog[c]) = 1
    /\ Cardinality(consoleErrors) = 1

\* the path, query string included, an operation builds from its arguments
PathOf(op, args) ==
  CASE op = "getBestBidAsk" -> getBestBidAskPath(args[1])
    [] op = "getEstimatedPrice" -> getEstimatedPricePath(args[1], args[2], args[3])
    [] op = "getTradingPairs" -> getTradingPairsPath(args[1], args[2], args[3])
    [] op = "placeOrder" -> "/api/v1/crypto/trading/orders/"
    [] op = "getOrder" -> "/api/v1/crypto/trading/orders/" \o args[1].v \o "/"
    [] op = "cancelOrder" -> "/api/v1/crypto/trading/orders/" \o args[1].v \o "/cancel/"
    [] op = "getOrders" -> getOrdersPath(args[1], args[2], args[3])
    [] op = "getAccount" -> "/api/v1/crypto/trading/accounts/"
    [] op = "getHoldings" -> getHoldingsPath(args[1], args[2], args[3])

\* the method of an operation
MethodOf(op) == IF op \in {"placeOrder", "cancelOrder"} THEN "POST" ELSE "GET"

\* C13: for every operation and arguments, the request that is sent goes to
\* the base URL followed by the very path, query string included, that is
\* in the signed message, with the method that is in the signed message.
C13_SignedPathIsSentPath ==
  \A c \in Calls :
    \A i \in 1..Len(fetchLog[c]) :
      LET sent == fetchLog[c][i]
          h == sent.options.headers
          path == PathOf(calls[c].op, calls[c].args)
          method == MethodOf(calls[c].op)
      IN /\ sent.url = "https://trading.robinhood.com" \o path
         /\ sent.options.method = method
         /\ h["x-signature"].base64.over =
              h["x-api-key"].v \o h["x-timestamp"].v \o path \o method \o calls[c].body

\* the request of getOrders with a filter and a limit has been sent to the
\* path with its query string
C13_Witness ==
  \E c \in Calls :
    /\ calls[c].op = "getOrders"
    /\ calls[c].args = <<SymbolSideFilter, Num(10), Undefined>>
    /\ Len(fetchLog[c]) = 1
    /\ fetchLog[c][1].url =
         "https://trading.robinhood.com/api/v1/crypto/trading/orders/?symbol=BTC-USD&side=buy&limit=10"
    /\ fetchLog[c][1].options.headers["x-signature"].base64.over =
         "rh-api-key-1" \o calls[c].signed.value.timestamp
           \o "/api/v1/crypto/trading/orders/?symbol=BTC-USD&side=buy&limit=10" \o "GET"

====
